---- MODULE Spec2Model ----
(***************************************************************************)
(* Model of the agentic-ai-starter-kit: the math tool (tools/math_tool.py) *)
(* and the Agent with its Memory and tool registry (agent/core.py).        *)
(*                                                                         *)
(* Python strings that the code inspects character by character (the       *)
(* expression of a math request, the content of a completion) are          *)
(* sequences of one-character strings.  Strings the code only compares or  *)
(* copies (mode, role, tool name, call id) are TLA+ strings.               *)
(***************************************************************************)
EXTENDS Integers, Sequences, FiniteSets, TLC

(***************************************************************************)
(* Bounds of the model.                                                    *)
(***************************************************************************)
\* longest expression drawn over EvalChars
MaxExprLen == 3
\* longest expression drawn over FactChars ("10000" and "10001" have 5)
MaxFactLen == 5
\* largest n whose factorial is computed digit by digit; above it the
\* digits are the uninterpreted record [factorial |-> n]
FactExactMax == 20
\* most tool calls in one model response
MaxCalls == 2
\* most turns the memory holds before no further operation is started
MaxTurns == 2

(***************************************************************************)
(* State.                                                                  *)
(***************************************************************************)
VARIABLES
    int_max_str_digits, \* the interpreter's limit on int -> str conversion (0: none)
    m_payload,          \* the MathRequest handed to evaluate_math on its own
    m_outcome,          \* what that call returned or raised
    tools,              \* Agent.tools, in insertion order
    memory,             \* Agent.memory.turns
    pc,                 \* where the running propose_question / solve stands
    question,           \* solve's argument
    tool_defs,          \* solve's local tool_defs
    messages,           \* solve's local messages
    msg,                \* first.choices[0].message
    k,                  \* index in msg.tool_calls of the call being dispatched
    result,             \* the handler's result, before it is appended
    requests,           \* the completion requests the running operation has sent
    handler_log,        \* ids of the tool calls whose handler has been invoked
    outcome,            \* how the last operation ended
    n_ok                \* number of propose_question and solve calls that returned

agent_vars == <<tools, memory, pc, question, tool_defs, messages, msg, k, result,
                requests, handler_log, outcome, n_ok>>
math_vars == <<m_payload, m_outcome>>
\* what no step of the Agent changes
env == <<int_max_str_digits, m_payload, m_outcome>>
vars == <<int_max_str_digits, math_vars, agent_vars>>

(***************************************************************************)
(* Characters.                                                             *)
(***************************************************************************)
Digits == {"0", "1", "2", "3", "4", "5", "6", "7", "8", "9"}

DigitVal(c) ==
    CASE c = "0" -> 0 [] c = "1" -> 1 [] c = "2" -> 2 [] c = "3" -> 3
      [] c = "4" -> 4 [] c = "5" -> 5 [] c = "6" -> 6 [] c = "7" -> 7
      [] c = "8" -> 8 [] c = "9" -> 9

DigitChar(d) ==
    CASE d = 0 -> "0" [] d = 1 -> "1" [] d = 2 -> "2" [] d = 3 -> "3"
      [] d = 4 -> "4" [] d = 5 -> "5" [] d = 6 -> "6" [] d = 7 -> "7"
      [] d = 8 -> "8" [] d = 9 -> "9"

Letters == {"a"}

\* str.isspace() for the characters of the model
IsSpace(c) == c = " "

Range(s) == {s[i] : i \in 1..Len(s)}

\* all sequences over chars of length 0..n
RECURSIVE StringsUpTo(_, _)
StringsUpTo(chars, n) ==
    IF n = 0 THEN {<<>>}
    ELSE LET shorter == StringsUpTo(chars, n - 1)
         IN  shorter \cup {Append(s, c) : s \in {t \in shorter : Len(t) = n - 1}, c \in chars}

\* str.strip(): drop leading and trailing whitespace
RECURSIVE LStrip(_)
LStrip(s) == IF s # <<>> /\ IsSpace(Head(s)) THEN LStrip(Tail(s)) ELSE s

RECURSIVE RStrip(_)
RStrip(s) ==
    IF s # <<>> /\ IsSpace(s[Len(s)]) THEN RStrip(SubSeq(s, 1, Len(s) - 1)) ELSE s

Strip(s) == RStrip(LStrip(s))

(***************************************************************************)
(* Python numbers.  An int is [t |-> "int", n]; a float is the exact       *)
(* rational [t |-> "float", num, den] with den > 0 in lowest terms         *)
(* (rounding is not modelled); "irr" is a float or complex value that is   *)
(* no rational; the only tuple the whitelist can write is (), and "..." is *)
(* the Ellipsis object.  A raised exception travels as                     *)
(* [t |-> "exc", e |-> <exception type>].                                  *)
(***************************************************************************)
Abs(x) == IF x < 0 THEN -x ELSE x

RECURSIVE Gcd(_, _)
Gcd(a, b) == IF b = 0 THEN a ELSE Gcd(b, a % b)

\* floor division of Python, for b # 0
FloorDiv(a, b) == IF b > 0 THEN a \div b ELSE (-a) \div (-b)

RECURSIVE IPow(_, _)
IPow(b, e) == IF e = 0 THEN 1 ELSE b * IPow(b, e - 1)

PyIntV(n) == [t |-> "int", n |-> n]
PyTuple == [t |-> "tuple"]
PyIrr == [t |-> "irr"]
PyEllipsis == [t |-> "ellipsis"]
PyExc(e) == [t |-> "exc", e |-> e]

PyFloatV(num, den) ==
    LET s == IF den < 0 THEN -1 ELSE 1
        g == Gcd(Abs(num), Abs(den))
    IN  [t |-> "float", num |-> (s * num) \div g, den |-> (s * den) \div g]

IsNum(v) == v.t \in {"int", "float"}
\* the values that are no numbers
IsObj(v) == v.t \in {"tuple", "ellipsis"}
Num(v) == IF v.t = "int" THEN v.n ELSE v.num
Den(v) == IF v.t = "int" THEN 1 ELSE v.den
IsZero(v) == IsNum(v) /\ Num(v) = 0

\* the result of an arithmetic operator on two numbers: int if both are
IntOrFloat(a, b, num, den) ==
    IF a.t = "int" /\ b.t = "int" THEN PyIntV(num \div den) ELSE PyFloatV(num, den)

(***************************************************************************)
(* The arithmetic operators of Python on these values.  The left operand   *)
(* is evaluated first, so its exception wins.                              *)
(***************************************************************************)
PyAdd(a, b) ==
    IF a.t = "exc" THEN a
    ELSE IF b.t = "exc" THEN b
    ELSE IF a.t = "tuple" /\ b.t = "tuple" THEN PyTuple
    ELSE IF IsObj(a) \/ IsObj(b) THEN PyExc("TypeError")
    ELSE IF a.t = "irr" \/ b.t = "irr" THEN PyIrr
    ELSE IntOrFloat(a, b, Num(a) * Den(b) + Num(b) * Den(a), Den(a) * Den(b))

PySub(a, b) ==
    IF a.t = "exc" THEN a
    ELSE IF b.t = "exc" THEN b
    ELSE IF IsObj(a) \/ IsObj(b) THEN PyExc("TypeError")
    ELSE IF a.t = "irr" \/ b.t = "irr" THEN PyIrr
    ELSE IntOrFloat(a, b, Num(a) * Den(b) - Num(b) * Den(a), Den(a) * Den(b))

PyMul(a, b) ==
    IF a.t = "exc" THEN a
    ELSE IF b.t = "exc" THEN b
    ELSE IF (a.t = "tuple" /\ b.t = "int") \/ (a.t = "int" /\ b.t = "tuple") THEN PyTuple
    ELSE IF IsObj(a) \/ IsObj(b) THEN PyExc("TypeError")
    ELSE IF a.t = "irr" \/ b.t = "irr" THEN PyIrr
    ELSE IntOrFloat(a, b, Num(a) * Num(b), Den(a) * Den(b))

PyTrueDiv(a, b) ==
    IF a.t = "exc" THEN a
    ELSE IF b.t = "exc" THEN b
    ELSE IF IsObj(a) \/ IsObj(b) THEN PyExc("TypeError")
    ELSE IF IsZero(b) THEN PyExc("ZeroDivisionError")
    ELSE IF a.t = "irr" \/ b.t = "irr" THEN PyIrr
    ELSE PyFloatV(Num(a) * Den(b), Den(a) * Num(b))

PyFloorDiv(a, b) ==
    IF a.t = "exc" THEN a
    ELSE IF b.t = "exc" THEN b
    ELSE IF IsObj(a) \/ IsObj(b) THEN PyExc("TypeError")
    ELSE IF IsZero(b) THEN PyExc("ZeroDivisionError")
    ELSE IF a.t = "irr" \/ b.t = "irr" THEN PyIrr
    ELSE LET q == FloorDiv(Num(a) * Den(b), Den(a) * Num(b))
         IN  IF a.t = "int" /\ b.t = "int" THEN PyIntV(q) ELSE PyFloatV(q, 1)

PyPow(a, b) ==
    IF a.t = "exc" THEN a
    ELSE IF b.t = "exc" THEN b
    ELSE IF IsObj(a) \/ IsObj(b) THEN PyExc("TypeError")
    ELSE IF a.t = "irr" \/ b.t = "irr" THEN PyIrr
    ELSE IF IsZero(a) /\ Num(b) < 0 THEN PyExc("ZeroDivisionError")
    ELSE IF Den(b) # 1 THEN (IF IsZero(a) THEN PyFloatV(0, 1) ELSE PyIrr)
    ELSE IF Num(b) >= 0
         THEN IntOrFloat(a, b, IPow(Num(a), Num(b)), IPow(Den(a), Num(b)))
         ELSE PyFloatV(IPow(Den(a), -Num(b)), IPow(Num(a), -Num(b)))

PyNeg(a) ==
    IF a.t = "exc" THEN a
    ELSE IF IsObj(a) THEN PyExc("TypeError")
    ELSE IF a.t = "irr" THEN PyIrr
    ELSE IF a.t = "int" THEN PyIntV(-a.n) ELSE PyFloatV(-a.num, a.den)

PyPos(a) ==
    IF a.t = "exc" THEN a
    ELSE IF IsObj(a) THEN PyExc("TypeError")
    ELSE a

\* calling a number or a tuple: the callee, then the argument, then the call
PyCall(f, arg) ==
    IF f.t = "exc" THEN f
    ELSE IF arg.t = "exc" THEN arg
    ELSE PyExc("TypeError")

\* an attribute the names of the model can spell: there is none
PyGetAttr(f) == IF f.t = "exc" THEN f ELSE PyExc("AttributeError")

(***************************************************************************)
(* The tokens of a Python expression over digits, letters, "+-*/()." and   *)
(* blanks: numbers, names, operators.                                      *)
(***************************************************************************)
\* the last index j >= i - 1 with s[i..j] all in chars
RECURSIVE RunEnd(_, _, _)
RunEnd(s, i, chars) ==
    IF i <= Len(s) /\ s[i] \in chars THEN RunEnd(s, i + 1, chars) ELSE i - 1

\* the value of a sequence of decimal digits (0 for none)
RECURSIVE DigitsVal(_)
DigitsVal(ds) ==
    IF ds = <<>> THEN 0
    ELSE 10 * DigitsVal(SubSeq(ds, 1, Len(ds) - 1)) + DigitVal(ds[Len(ds)])

TokNum(v) == [k |-> "num", s |-> "", v |-> v]
TokName == [k |-> "name", s |-> "", v |-> PyTuple]
TokOp(s) == [k |-> "op", s |-> s, v |-> PyTuple]
LexFail == [ok |-> FALSE, toks |-> <<>>]

\* a number literal starting at s[i]: [ok, end, v]
LexNumber(s, i) ==
    LET intEnd == RunEnd(s, i, Digits)
        ints == SubSeq(s, i, intEnd)
        isFloat == intEnd < Len(s) /\ s[intEnd + 1] = "."
        fracEnd == IF isFloat THEN RunEnd(s, intEnd + 2, Digits) ELSE intEnd
        fracs == SubSeq(s, intEnd + 2, fracEnd)
        end == fracEnd
        \* "02" is no literal, "00" and "02." are
        leadingZero == ~isFloat /\ Len(ints) > 1 /\ ints[1] = "0"
                          /\ Range(ints) # {"0"}
        \* "2a": invalid decimal literal
        glued == end < Len(s) /\ s[end + 1] \in Letters
    IN  [ok |-> ~leadingZero /\ ~glued,
         end |-> end,
         v |-> IF isFloat
               THEN PyFloatV(DigitsVal(ints \o fracs), IPow(10, Len(fracs)))
               ELSE PyIntV(DigitsVal(ints))]

RECURSIVE Lex(_, _, _)
Lex(s, i, acc) ==
    IF i > Len(s) THEN [ok |-> TRUE, toks |-> acc]
    ELSE LET c == s[i]
             next == IF i < Len(s) THEN s[i + 1] ELSE ""
         IN  IF IsSpace(c) THEN Lex(s, i + 1, acc)
             ELSE IF c \in Digits \/ (c = "." /\ next \in Digits)
                  THEN LET n == LexNumber(s, i)
                       IN  IF n.ok THEN Lex(s, n.end + 1, Append(acc, TokNum(n.v)))
                           ELSE LexFail
             ELSE IF c \in Letters
                  THEN Lex(s, RunEnd(s, i, Letters \cup Digits) + 1, Append(acc, TokName))
             ELSE IF i + 2 <= Len(s) /\ SubSeq(s, i, i + 2) = <<".", ".", ".">>
                  THEN Lex(s, i + 3, Append(acc, TokNum(PyEllipsis)))
             ELSE IF c \in {"*", "/"} /\ next = c
                  THEN Lex(s, i + 2, Append(acc, TokOp(<<c, c>>)))
             ELSE IF c \in {"+", "-", "*", "/", "(", ")", "."}
                  THEN Lex(s, i + 1, Append(acc, TokOp(<<c>>)))
             ELSE LexFail

Tokenize(s) == Lex(s, 1, <<>>)

(***************************************************************************)
(* eval(): the expression grammar of Python restricted to these tokens,    *)
(* evaluated while it is parsed.  A parse yields [ok, i, v]: whether the   *)
(* syntax is right so far, the index of the next token, the value (or the  *)
(* exception the evaluation raised).                                       *)
(*   arith  ::= term (("+" | "-") term)*                                   *)
(*   term   ::= factor (("*" | "/" | "//") factor)*                        *)
(*   factor ::= ("+" | "-") factor | power                                 *)
(*   power  ::= primary ["**" factor]                                      *)
(*   primary::= atom ("(" [["*" | "**"] arith] ")" | "." NAME)*            *)
(*   atom   ::= NUMBER | NAME | "(" arith ")" | "(" ")"                    *)
(***************************************************************************)
ParseFail == [ok |-> FALSE, i |-> 0, v |-> PyTuple]
Parsed(i, v) == [ok |-> TRUE, i |-> i, v |-> v]

IsOp(toks, i, ops) == i <= Len(toks) /\ toks[i].k = "op" /\ toks[i].s \in ops

\* Parse(rule, toks, i, acc): the rule applied from token i on; acc is the
\* value parsed so far for the rules that continue one ("trailers", "term_rest",
\* "arith_rest") and unused otherwise
RECURSIVE Parse(_, _, _, _)
Parse(rule, toks, i, acc) ==
    CASE rule = "atom" ->
           IF i > Len(toks) THEN ParseFail
           ELSE IF toks[i].k = "num" THEN Parsed(i + 1, toks[i].v)
           ELSE IF toks[i].k = "name" THEN Parsed(i + 1, PyExc("NameError"))
           ELSE IF toks[i].s = <<"(">>
                THEN IF IsOp(toks, i + 1, {<<")">>}) THEN Parsed(i + 2, PyTuple)
                     ELSE LET e == Parse("arith", toks, i + 1, acc)
                          IN  IF e.ok /\ IsOp(toks, e.i, {<<")">>}) THEN Parsed(e.i + 1, e.v)
                              ELSE ParseFail
           ELSE ParseFail
      [] rule = "trailers" ->
           IF IsOp(toks, i, {<<".">>})
           THEN IF i < Len(toks) /\ toks[i + 1].k = "name"
                THEN Parse("trailers", toks, i + 2, PyGetAttr(acc))
                ELSE ParseFail
           ELSE IF ~IsOp(toks, i, {<<"(">>}) THEN Parsed(i, acc)
           ELSE IF IsOp(toks, i + 1, {<<")">>})
                THEN Parse("trailers", toks, i + 2, PyCall(acc, PyTuple))
           ELSE LET \* an argument may be unpacked: f(*x), f(**x)
                    star == IF IsOp(toks, i + 1, {<<"*">>, <<"*", "*">>}) THEN 1 ELSE 0
                    e == Parse("arith", toks, i + 1 + star, acc)
                IN  IF e.ok /\ IsOp(toks, e.i, {<<")">>})
                    THEN Parse("trailers", toks, e.i + 1, PyCall(acc, e.v))
                    ELSE ParseFail
      [] rule = "primary" ->
           LET a == Parse("atom", toks, i, acc)
           IN  IF a.ok THEN Parse("trailers", toks, a.i, a.v) ELSE ParseFail
      [] rule = "power" ->
           LET a == Parse("primary", toks, i, acc)
           IN  IF ~a.ok THEN ParseFail
               ELSE IF IsOp(toks, a.i, {<<"*", "*">>})
                    THEN LET f == Parse("factor", toks, a.i + 1, acc)
                         IN  IF f.ok THEN Parsed(f.i, PyPow(a.v, f.v)) ELSE ParseFail
               ELSE a
      [] rule = "factor" ->
           IF IsOp(toks, i, {<<"+">>, <<"-">>})
           THEN LET f == Parse("factor", toks, i + 1, acc)
                IN  IF ~f.ok THEN ParseFail
                    ELSE Parsed(f.i, IF toks[i].s = <<"-">> THEN PyNeg(f.v) ELSE PyPos(f.v))
           ELSE Parse("power", toks, i, acc)
      [] rule = "term_rest" ->
           IF ~IsOp(toks, i, {<<"*">>, <<"/">>, <<"/", "/">>}) THEN Parsed(i, acc)
           ELSE LET f == Parse("factor", toks, i + 1, acc)
                    op == toks[i].s
                IN  IF ~f.ok THEN ParseFail
                    ELSE Parse("term_rest", toks, f.i,
                               IF op = <<"*">> THEN PyMul(acc, f.v)
                               ELSE IF op = <<"/">> THEN PyTrueDiv(acc, f.v)
                               ELSE PyFloorDiv(acc, f.v))
      [] rule = "term" ->
           LET f == Parse("factor", toks, i, acc)
           IN  IF f.ok THEN Parse("term_rest", toks, f.i, f.v) ELSE ParseFail
      [] rule = "arith_rest" ->
           IF ~IsOp(toks, i, {<<"+">>, <<"-">>}) THEN Parsed(i, acc)
           ELSE LET t == Parse("term", toks, i + 1, acc)
                IN  IF ~t.ok THEN ParseFail
                    ELSE Parse("arith_rest", toks, t.i,
                               IF toks[i].s = <<"+">> THEN PyAdd(acc, t.v)
                               ELSE PySub(acc, t.v))
      [] rule = "arith" ->
           LET t == Parse("term", toks, i, acc)
           IN  IF t.ok THEN Parse("arith_rest", toks, t.i, t.v) ELSE ParseFail

\* eval(expr, {"__builtins__": {}}, {}): the value, or the exception raised
PyEval(expr) ==
    LET lexed == Tokenize(expr)
        e == Parse("arith", lexed.toks, 1, PyTuple)
    IN  IF ~lexed.ok \/ ~e.ok \/ e.i # Len(lexed.toks) + 1 THEN PyExc("SyntaxError")
        ELSE e.v

(***************************************************************************)
(* Python strings as the tool returns them.  A text is                     *)
(*   [k |-> "str", chars]          a string known character by character   *)
(*   [k |-> "float", num, den]     str() of a float                        *)
(*   [k |-> "sqrt", num, den]      str() of math.sqrt of a float           *)
(*   [k |-> "irr"]                 str() of an irrational or complex value *)
(*   [k |-> "factorial", n]        the digits of n!, n > FactExactMax      *)
(*   [k |-> "Error: ", msg]        f"Error: {e}" and the literal errors    *)
(***************************************************************************)
StrText(chars) == [k |-> "str", chars |-> chars]
ErrText(m) == [k |-> "Error: ", msg |-> m]
IsErrText(t) == t.k = "Error: "

\* str(e) of the exceptions the tool catches
ExcMessage(e) ==
    CASE e = "ZeroDivisionError" -> "division by zero"
      [] e = "SyntaxError" -> "invalid syntax"
      [] e = "TypeError" -> "unsupported operand or call"
      [] e = "NameError" -> "name is not defined"
      [] e = "AttributeError" -> "object has no attribute"
      [] e = "ValueError:int" -> "invalid literal for int() with base 10"
      [] e = "ValueError:float" -> "could not convert string to float"
      [] e = "ValueError:sqrt" -> "math domain error"
      [] e = "ValueError:str" -> "Exceeds the limit for integer string conversion"

\* the decimal digits of a natural number, most significant first
RECURSIVE NatToChars(_)
NatToChars(n) ==
    IF n < 10 THEN <<DigitChar(n)>> ELSE Append(NatToChars(n \div 10), DigitChar(n % 10))

IntToChars(n) == IF n < 0 THEN <<"-">> \o NatToChars(-n) ELSE NatToChars(n)

\* str(v) of a value of eval
PyStr(v) ==
    CASE v.t = "int" -> StrText(IntToChars(v.n))
      [] v.t = "float" -> [k |-> "float", num |-> v.num, den |-> v.den]
      [] v.t = "irr" -> [k |-> "irr"]
      [] v.t = "tuple" -> StrText(<<"(", ")">>)
      [] v.t = "ellipsis" -> StrText(<<"E", "l", "l", "i", "p", "s", "i", "s">>)

\* a leading "+" or "-" split off: [neg, rest]
SplitSign(s) ==
    IF s # <<>> /\ s[1] \in {"+", "-"} THEN [neg |-> s[1] = "-", rest |-> Tail(s)]
    ELSE [neg |-> FALSE, rest |-> s]

\* int(expr) of a string: blanks stripped, a sign, decimal digits
\* (no string of the model holds an underscore)
PyInt(expr) ==
    LET u == SplitSign(Strip(expr))
    IN  IF u.rest # <<>> /\ Range(u.rest) \subseteq Digits
        THEN PyIntV(IF u.neg THEN -DigitsVal(u.rest) ELSE DigitsVal(u.rest))
        ELSE PyExc("ValueError:int")

\* float(expr) of a string: blanks stripped, a sign, digits with at most one
\* point (no string of the model spells an exponent, "inf" or "nan")
PyFloat(expr) ==
    LET u == SplitSign(Strip(expr))
        intEnd == RunEnd(u.rest, 1, Digits)
        hasDot == intEnd < Len(u.rest) /\ u.rest[intEnd + 1] = "."
        fracEnd == IF hasDot THEN RunEnd(u.rest, intEnd + 2, Digits) ELSE intEnd
        ints == SubSeq(u.rest, 1, intEnd)
        fracs == SubSeq(u.rest, intEnd + 2, fracEnd)
        mag == PyFloatV(DigitsVal(ints \o fracs), IPow(10, Len(fracs)))
    IN  IF fracEnd = Len(u.rest) /\ Len(ints) + Len(fracs) > 0
        THEN (IF u.neg THEN PyFloatV(-mag.num, mag.den) ELSE mag)
        ELSE PyExc("ValueError:float")

\* str(math.sqrt(x)) of a float x
StrSqrt(x) ==
    IF x.num < 0 THEN ErrText(ExcMessage("ValueError:sqrt"))
    ELSE [k |-> "sqrt", num |-> x.num, den |-> x.den]

(***************************************************************************)
(* math.factorial on arbitrary-precision integers: the digits, least       *)
(* significant first.                                                      *)
(***************************************************************************)
RECURSIVE MulDigits(_, _, _)
MulDigits(ds, m, carry) ==
    IF ds = <<>>
    THEN (IF carry = 0 THEN <<>> ELSE <<carry % 10>> \o MulDigits(<<>>, m, carry \div 10))
    ELSE LET p == Head(ds) * m + carry
         IN  <<p % 10>> \o MulDigits(Tail(ds), m, p \div 10)

RECURSIVE Factorial(_)
Factorial(n) == IF n <= 1 THEN <<1>> ELSE MulDigits(Factorial(n - 1), n, 0)

Reverse(s) == [i \in 1..Len(s) |-> s[Len(s) + 1 - i]]

\* CPython's default limit on the digits of an int converted to or from str
\* (sys.int_info.default_max_str_digits)
DefaultMaxStrDigits == 4300
\* 1558! has 4300 digits and 1559! has 4304
LargestFactorialArgWithinDefault == 1558

\* whether str(n!) exceeds the interpreter's limit
StrOfFactorialExceeds(n) ==
    /\ int_max_str_digits # 0
    /\ IF n <= FactExactMax THEN Len(Factorial(n)) > int_max_str_digits
       ELSE n > LargestFactorialArgWithinDefault

\* str(math.factorial(n)) for 0 <= n
StrFactorial(n) ==
    IF StrOfFactorialExceeds(n) THEN ErrText(ExcMessage("ValueError:str"))
    ELSE IF n <= FactExactMax
         THEN StrText([i \in 1..Len(Factorial(n)) |-> DigitChar(Reverse(Factorial(n))[i])])
         ELSE [k |-> "factorial", n |-> n]

(***************************************************************************)
(* tools/math_tool.py                                                      *)
(***************************************************************************)
\* what a call ended with: the value returned, or the exception raised;
\* evaled lists the strings the call handed to eval()
Returned(text, evaled) == [exc |-> "none", ret |-> text, evaled |-> evaled]
Raised(e) == [exc |-> e, ret |-> ErrText(e), evaled |-> <<>>]

\* a whitelist that lets letters through
allowed_with_letters ==
    Digits \cup {"+", "-", "*", "/", "(", ")", ".", " "} \cup Letters

\* allowed = set("0123456789+-*/(). ")
allowed == Digits \cup {"+", "-", "*", "/", "(", ")", ".", " "}

\* the body of `if mode == "factorial"`
factorial_mode(expr) ==
    LET n == PyInt(expr)
    IN  IF n.t = "exc" THEN ErrText(ExcMessage(n.e))
        ELSE IF n.n < 0 \/ n.n > 10000 THEN ErrText("n out of range")
        ELSE StrFactorial(n.n)

\* the body of `if mode == "sqrt"`
sqrt_mode(expr) ==
    LET x == PyFloat(expr)
    IN  IF x.t = "exc" THEN ErrText(ExcMessage(x.e)) ELSE StrSqrt(x)

\* the body of `if mode == "eval"`
eval_mode(expr) ==
    IF ~(Range(expr) \subseteq allowed)
    THEN Returned(ErrText("disallowed characters"), <<>>)
    ELSE LET v == PyEval(expr)
         IN  Returned(IF v.t = "exc" THEN ErrText(ExcMessage(v.e)) ELSE PyStr(v),
                      <<expr>>)

\* evaluate_math(payload): payload is a dict whose values are strings
evaluate_math(payload) ==
    IF "expression" \notin DOMAIN payload \/ "mode" \notin DOMAIN payload
    THEN Raised("KeyError")
    ELSE LET expr == payload["expression"]
             mode == payload["mode"]
         IN  IF mode = "sqrt" THEN Returned(sqrt_mode(expr), <<>>)
             ELSE IF mode = "factorial" THEN Returned(factorial_mode(expr), <<>>)
             ELSE IF mode = "eval" THEN eval_mode(expr)
             ELSE Returned(ErrText("unknown mode"), <<>>)

(***************************************************************************)
(* The requests evaluate_math is checked on by itself.                     *)
(***************************************************************************)
EvalChars == {"0", "2", "+", "-", "*", "/", "(", ")", ".", " ", "a"}
FactChars == {"0", "1", "-", " ", "a"}
Modes == {"eval", "sqrt", "factorial", "divide"}

MathRequests ==
    {[expression |-> e, mode |-> m] : e \in StringsUpTo(EvalChars, MaxExprLen), m \in Modes}
      \cup {[expression |-> e, mode |-> "factorial"] : e \in StringsUpTo(FactChars, MaxFactLen)}
      \cup {[mode |-> m] : m \in Modes}
      \cup {[expression |-> <<"2">>]}

NoOutcome == [exc |-> "pending", ret |-> ErrText(""), evaled |-> <<>>]

(***************************************************************************)
(* agent/core.py: ToolSpec, Memory, the registry.                          *)
(***************************************************************************)
\* None, as the content of a turn or of a completion
PyNone == [k |-> "None"]

\* `content or ""`
OrEmpty(content) == IF content = PyNone THEN <<>> ELSE content.chars

\* (content or "").strip()
Trimmed(content) == StrText(Strip(OrEmpty(content)))

\* the ToolSpec registered by Agent.__init__
MathToolSpec ==
    [name |-> "evaluate_math",
     description |-> "Safely evaluate arithmetic, sqrt, or factorial.",
     parameters |-> "{expression: string, mode: eval|sqrt|factorial}",
     handler |-> "evaluate_math"]

\* ToolSpecs a caller may register: a handler that returns a string, one that raises
OtherToolSpecs ==
    {[name |-> "lookup", description |-> "third-party tool",
      parameters |-> "{}", handler |-> h] : h \in {"echo", "raises"}}

ToolNames(reg) == {reg[i].name : i \in 1..Len(reg)}
Lookup(reg, name) == reg[CHOOSE i \in 1..Len(reg) : reg[i].name = name]

\* register_tool: self.tools[tool.name] = tool (a dict keeps insertion order)
register_tool(reg, tool) ==
    IF tool.name \in ToolNames(reg)
    THEN [i \in 1..Len(reg) |-> IF reg[i].name = tool.name THEN tool ELSE reg[i]]
    ELSE Append(reg, tool)

\* Memory.add
Memory_add(turns, role, content) == Append(turns, [role |-> role, content |-> content])

\* Memory.as_messages
as_messages(turns) ==
    [i \in 1..Len(turns) |-> [role |-> turns[i].role, content |-> turns[i].content]]

\* a handler called with the parsed arguments
RunHandler(h, parsed) ==
    CASE h = "evaluate_math" -> evaluate_math(parsed)
      [] h = "echo" -> Returned(StrText(<<"o", "k">>), <<>>)
      [] h = "raises" -> Raised("RuntimeError")

(***************************************************************************)
(* json.loads on the argument texts of the model: a text is a sequence of  *)
(* JSON tokens, and the documents are flat objects with string values.     *)
(***************************************************************************)
JPunct(c) == [j |-> c]
JStr(v) == [j |-> "str", s |-> v]
EmptyDict == [x \in {} |-> ""]
JsonFail == [ok |-> FALSE, v |-> EmptyDict]

\* members of an object from token i on, the "}" included
RECURSIVE JsonMembers(_, _, _)
JsonMembers(toks, i, acc) ==
    IF i + 3 > Len(toks) THEN JsonFail
    ELSE IF toks[i].j # "str" \/ toks[i + 1].j # ":" \/ toks[i + 2].j # "str" THEN JsonFail
    ELSE LET d == (toks[i].s :> toks[i + 2].s) @@ acc
         IN  IF toks[i + 3].j = "}" THEN [ok |-> i + 3 = Len(toks), v |-> d]
             ELSE IF toks[i + 3].j = "," THEN JsonMembers(toks, i + 4, d)
             ELSE JsonFail

json_loads(toks) ==
    IF toks = <<>> \/ toks[1].j # "{" THEN JsonFail
    ELSE IF Len(toks) = 2 /\ toks[2].j = "}" THEN [ok |-> TRUE, v |-> EmptyDict]
    ELSE JsonMembers(toks, 2, EmptyDict)

JsonObject(pairs) ==
    <<JPunct("{")>> \o pairs \o <<JPunct("}")>>
JsonPair(key, v) == <<JStr(key), JPunct(":"), JStr(v)>>

\* call.function.arguments: a JSON text (str) or an already parsed dict
ArgText(toks) == [str |-> TRUE, text |-> toks]
ArgDict(d) == [str |-> FALSE, dict |-> d]

(***************************************************************************)
(* What the completion API may answer.                                     *)
(***************************************************************************)
Contents == {PyNone, StrText(<<>>), StrText(<<" ", "a", " ">>)}
Questions == {<<"q">>}

\* the function calls a response may hold
FunctionCalls ==
    { [name |-> "evaluate_math",
       arguments |-> ArgText(JsonObject(JsonPair("expression", <<"2", "*", "2">>)
                                          \o <<JPunct(",")>> \o JsonPair("mode", "eval")))],
      [name |-> "evaluate_math",
       arguments |-> ArgDict([expression |-> <<"1", "0", "0", "0", "0">>, mode |-> "factorial"])],
      [name |-> "evaluate_math",
       arguments |-> ArgDict([expression |-> <<"a">>, mode |-> "eval"])],
      [name |-> "evaluate_math",
       arguments |-> ArgText(JsonObject(JsonPair("mode", "eval")))],
      [name |-> "evaluate_math",
       arguments |-> ArgText(<<JPunct("{"), JStr("expression")>>)],
      [name |-> "lookup",
       arguments |-> ArgText(JsonObject(<<>>))] }

\* msg.tool_calls: the API gives every call of a response its own id
ToolCallLists ==
    UNION {[1..n -> FunctionCalls] : n \in 0..MaxCalls}
WithIds(calls) ==
    [i \in 1..Len(calls) |-> [id |-> i, name |-> calls[i].name, arguments |-> calls[i].arguments]]

\* first.choices[0].message: a direct answer, or tool calls with no content
FirstMessages ==
    {[content |-> c, tool_calls |-> <<>>] : c \in Contents}
      \cup {[content |-> PyNone, tool_calls |-> WithIds(calls)] :
               calls \in ToolCallLists \ {<<>>}}

(***************************************************************************)
(* Agent: propose_question and solve, step by step.  pc names the state of *)
(* the running call; DONE and FAILED are the moments it returns or raises. *)
(***************************************************************************)
SysPrompt == <<"You are a precise problem solver. ...">>
ProposePrompt == <<"Propose one difficult, precise question ...">>
QuestionPrefix == <<"Question to solve: ">>

NoMsg == [content |-> PyNone, tool_calls |-> <<>>]
NoResult == PyNone
Idle == [op |-> "none", status |-> "none", value |-> PyNone, exc |-> "", at |-> ""]
Running(op) == [op |-> op, status |-> "running", value |-> PyNone, exc |-> "", at |-> ""]
ReturnedFrom(op, v) == [op |-> op, status |-> "returned", value |-> v, exc |-> "", at |-> ""]
RaisedFrom(op, e, at) == [op |-> op, status |-> "raised", value |-> PyNone, exc |-> e, at |-> at]

\* a request to client.chat.completions.create
Request(model, msgs, offers, defs, choice, temperature) ==
    [model |-> model, messages |-> msgs, offers_tools |-> offers, tools |-> defs,
     tool_choice |-> choice, temperature |-> temperature]

\* tool_defs of solve
ToolDefs(reg) ==
    [i \in 1..Len(reg) |->
        [type |-> "function",
         function |-> [name |-> reg[i].name, description |-> reg[i].description,
                       parameters |-> reg[i].parameters]]]

\* messages of solve, before the first pass
FirstMessageList(turns, q) ==
    <<[role |-> "system", content |-> StrText(SysPrompt)]>>
      \o as_messages(turns)
      \o <<[role |-> "user", content |-> StrText(q)]>>

\* the tool turn put before the turns already in the list
tool_turn_prepended(msgs, call, res) ==
    <<[role |-> "tool", tool_call_id |-> call.id, name |-> call.name, content |-> res]>>
      \o msgs

\* messages.append({"role": "tool", ...})
tool_turn_appended(msgs, call, res) ==
    Append(msgs, [role |-> "tool", tool_call_id |-> call.id, name |-> call.name,
                  content |-> res])

\* the message list of the second pass
SecondMessageList(msgs, m) ==
    msgs \o <<[role |-> "assistant", content |-> PyNone, tool_calls |-> m.tool_calls]>>

\* memory after solve that also stores the question
solve_remembers_question(turns, q, final) ==
    Memory_add(Memory_add(turns, "user", StrText(q)), "assistant", final)

\* self.memory.add("assistant", final)
solve_remembers(turns, q, final) == Memory_add(turns, "assistant", final)

AgentInit ==
    /\ tools = register_tool(<<>>, MathToolSpec)
    /\ memory = <<>>
    /\ pc = "idle"
    /\ question = <<>>
    /\ tool_defs = <<>>
    /\ messages = <<>>
    /\ msg = NoMsg
    /\ k = 0
    /\ result = NoResult
    /\ requests = <<>>
    /\ handler_log = <<>>
    /\ outcome = Idle
    /\ n_ok = 0

locals == <<question, tool_defs, messages, msg, k, result, handler_log>>

\* Agent.register_tool, between operations
RegisterTool(tool) ==
    /\ pc = "idle"
    /\ tools' = register_tool(tools, tool)
    /\ UNCHANGED <<env, memory, pc, locals, requests, outcome, n_ok>>

\* propose_question up to its completion request
ProposeBegin ==
    /\ pc = "idle"
    /\ Len(memory) < MaxTurns
    /\ pc' = "PROPOSING"
    /\ requests' = <<Request("model_fast",
                             <<[role |-> "user", content |-> StrText(ProposePrompt)]>>,
                             FALSE, <<>>, "unset", "0.7")>>
    /\ outcome' = Running("propose_question")
    /\ UNCHANGED <<env, tools, memory, locals, n_ok>>

\* the completion call of propose_question raises
ProposeFails ==
    /\ pc = "PROPOSING"
    /\ pc' = "FAILED"
    /\ outcome' = RaisedFrom("propose_question", "APIError", "create")
    /\ UNCHANGED <<env, tools, memory, locals, requests, n_ok>>

\* the completion call returns; the question is remembered and returned
ProposeReturns(content) ==
    /\ pc = "PROPOSING"
    /\ LET q == Trimmed(content)
       IN  /\ memory' = Memory_add(memory, "user", StrText(QuestionPrefix \o q.chars))
           /\ outcome' = ReturnedFrom("propose_question", q)
    /\ pc' = "DONE"
    /\ n_ok' = n_ok + 1
    /\ UNCHANGED <<env, tools, locals, requests>>

\* solve up to its first completion request
SolveBegin(q) ==
    /\ pc = "idle"
    /\ Len(memory) < MaxTurns
    /\ question' = q
    /\ tool_defs' = ToolDefs(tools)
    /\ messages' = FirstMessageList(memory, q)
    /\ requests' = <<Request("model_default", messages', TRUE, tool_defs', "auto", "0.2")>>
    /\ pc' = "FIRST_PASS"
    /\ outcome' = Running("solve")
    /\ msg' = NoMsg
    /\ k' = 0
    /\ result' = NoResult
    /\ handler_log' = <<>>
    /\ UNCHANGED <<env, tools, memory, n_ok>>

\* the first completion call raises after the question was put into memory
FirstPassFails_question_remembered ==
    /\ pc = "FIRST_PASS"
    /\ pc' = "FAILED"
    /\ memory' = Memory_add(memory, "user", StrText(question))
    /\ outcome' = RaisedFrom("solve", "APIError", "create")
    /\ UNCHANGED <<env, tools, locals, requests, n_ok>>

\* the first completion call raises
FirstPassFails ==
    /\ pc = "FIRST_PASS"
    /\ pc' = "FAILED"
    /\ outcome' = RaisedFrom("solve", "APIError", "create")
    /\ UNCHANGED <<env, tools, memory, locals, requests, n_ok>>

\* the first completion call returns a message without tool calls
DirectAnswer(m) ==
    /\ pc = "FIRST_PASS"
    /\ m.tool_calls = <<>>
    /\ msg' = m
    /\ LET final == Trimmed(m.content)
       IN  /\ memory' = solve_remembers(memory, question, final)
           /\ outcome' = ReturnedFrom("solve", final)
    /\ pc' = "DONE"
    /\ n_ok' = n_ok + 1
    /\ UNCHANGED <<env, tools, question, tool_defs, messages, k, result, handler_log, requests>>

\* the first completion call returns a message with tool calls
ToolsRequested(m) ==
    /\ pc = "FIRST_PASS"
    /\ m.tool_calls # <<>>
    /\ msg' = m
    /\ k' = 1
    /\ pc' = "DISPATCHING"
    /\ UNCHANGED <<env, tools, memory, question, tool_defs, messages, result, handler_log,
                   requests, outcome, n_ok>>

\* one pass of the loop body up to the handler's return: the arguments are
\* decoded, the handler is looked up and called
Dispatch ==
    /\ pc = "DISPATCHING"
    /\ LET call == msg.tool_calls[k]
           args == call.arguments
           decoded == IF args.str THEN json_loads(args.text)
                      ELSE [ok |-> TRUE, v |-> args.dict]
           called == RunHandler(Lookup(tools, call.name).handler, decoded.v)
       IN  IF ~decoded.ok
           THEN /\ pc' = "FAILED"
                /\ outcome' = RaisedFrom("solve", "JSONDecodeError", "json.loads")
                /\ UNCHANGED <<result, handler_log>>
           ELSE IF call.name \notin ToolNames(tools)
           THEN /\ pc' = "FAILED"
                /\ outcome' = RaisedFrom("solve", "KeyError", "self.tools[name]")
                /\ UNCHANGED <<result, handler_log>>
           ELSE /\ handler_log' = Append(handler_log, call.id)
                /\ IF called.exc # "none"
                   THEN /\ pc' = "FAILED"
                        /\ outcome' = RaisedFrom("solve", called.exc, "handler")
                        /\ UNCHANGED result
                   ELSE /\ pc' = "APPENDING"
                        /\ result' = called.ret
                        /\ UNCHANGED outcome
    /\ UNCHANGED <<env, tools, memory, question, tool_defs, messages, msg, k, requests, n_ok>>

\* the rest of the loop body: the tool turn is appended; after the last
\* call the second completion request is sent
AppendResult ==
    /\ pc = "APPENDING"
    /\ messages' = tool_turn_appended(messages, msg.tool_calls[k], result)
    /\ result' = NoResult
    /\ IF k < Len(msg.tool_calls)
       THEN /\ k' = k + 1
            /\ pc' = "DISPATCHING"
            /\ UNCHANGED requests
       ELSE /\ pc' = "SECOND_PASS"
            /\ requests' = Append(requests,
                                  Request("model_default", SecondMessageList(messages', msg),
                                          FALSE, <<>>, "unset", "0.2"))
            /\ UNCHANGED k
    /\ UNCHANGED <<env, tools, memory, question, tool_defs, msg, handler_log, outcome, n_ok>>

\* the second completion call raises
SecondPassFails ==
    /\ pc = "SECOND_PASS"
    /\ pc' = "FAILED"
    /\ outcome' = RaisedFrom("solve", "APIError", "create")
    /\ UNCHANGED <<env, tools, memory, locals, requests, n_ok>>

\* the second completion call returns the final answer
SecondPassReturns(content) ==
    /\ pc = "SECOND_PASS"
    /\ LET final == Trimmed(content)
       IN  /\ memory' = solve_remembers(memory, question, final)
           /\ outcome' = ReturnedFrom("solve", final)
    /\ pc' = "DONE"
    /\ n_ok' = n_ok + 1
    /\ UNCHANGED <<env, tools, locals, requests>>

\* the call has returned or raised: its locals are gone
Leave ==
    /\ pc \in {"DONE", "FAILED"}
    /\ pc' = "idle"
    /\ question' = <<>>
    /\ tool_defs' = <<>>
    /\ messages' = <<>>
    /\ msg' = NoMsg
    /\ k' = 0
    /\ result' = NoResult
    /\ requests' = <<>>
    /\ handler_log' = <<>>
    /\ outcome' = Idle
    /\ UNCHANGED <<env, tools, memory, n_ok>>

Init ==
    /\ int_max_str_digits \in {0, DefaultMaxStrDigits}
    /\ m_payload = [mode |-> "eval"]
    /\ m_outcome = NoOutcome
    /\ AgentInit

Next ==
    \/ \E tool \in OtherToolSpecs : RegisterTool(tool)
    \/ ProposeBegin
    \/ ProposeFails
    \/ \E c \in Contents : ProposeReturns(c)
    \/ \E q \in Questions : SolveBegin(q)
    \/ FirstPassFails
    \/ \E m \in FirstMessages : DirectAnswer(m)
    \/ \E m \in FirstMessages : ToolsRequested(m)
    \/ Dispatch
    \/ AppendResult
    \/ SecondPassFails
    \/ \E c \in Contents : SecondPassReturns(c)
    \/ Leave

Spec == Init /\ [][Next]_vars

(***************************************************************************)
(* evaluate_math by itself.                                                *)
(***************************************************************************)
MathInit ==
    /\ int_max_str_digits \in {0, DefaultMaxStrDigits}
    /\ m_payload \in MathRequests
    /\ m_outcome = NoOutcome
    /\ AgentInit

EvaluateMath ==
    /\ m_outcome = NoOutcome
    /\ m_outcome' = evaluate_math(m_payload)
    /\ UNCHANGED <<int_max_str_digits, m_payload, agent_vars>>

MathNext == EvaluateMath

MathSpec == MathInit /\ [][MathNext]_vars

(***************************************************************************)
(* Properties.                                                             *)
(***************************************************************************)
IsToolTurn(t) == t.role = "tool"
ToolTurns(msgs) == SelectSeq(msgs, IsToolTurn)

\* how many tool turns of msgs carry the id
ResultTurnsFor(msgs, id) ==
    Cardinality({i \in 1..Len(msgs) : IsToolTurn(msgs[i]) /\ msgs[i].tool_call_id = id})

\* solve has left the dispatch loop: the second request is out, or it ended
PastDispatch == pc \in {"SECOND_PASS", "DONE", "FAILED"} /\ outcome.op = "solve"

\* C1: every tool call the first response requests, a call naming an
\* unregistered tool or one whose handler fails included, has exactly one
\* result turn with its correlation id once solve is past the dispatch loop
\* (before the second model call is made).
C1_EveryToolCallHasOneResultTurn ==
    PastDispatch =>
        \A i \in 1..Len(msg.tool_calls) :
            ResultTurnsFor(messages, msg.tool_calls[i].id) = 1

\* the position of the assistant turn that carries the tool calls (0: none)
AssistantRequestIndex(msgs) ==
    IF \E i \in 1..Len(msgs) : msgs[i].role = "assistant" /\ "tool_calls" \in DOMAIN msgs[i]
    THEN CHOOSE i \in 1..Len(msgs) :
             msgs[i].role = "assistant" /\ "tool_calls" \in DOMAIN msgs[i]
    ELSE 0

\* C2: in the message list of the second model call the assistant turn that
\* carries the tool calls comes before every tool-result turn: the list is
\* the original messages, the assistant tool-request turn, the tool results.
C2_AssistantTurnBeforeToolResults ==
    Len(requests) = 2 =>
        LET sent == requests[2].messages
            a == AssistantRequestIndex(sent)
        IN  /\ a = Len(FirstMessageList(memory, question)) + 1
            /\ \A i \in 1..Len(sent) : IsToolTurn(sent[i]) => a < i

\* the string the handler of a call returns
HandlerReturn(call) ==
    RunHandler(Lookup(tools, call.name).handler,
               IF call.arguments.str THEN json_loads(call.arguments.text).v
               ELSE call.arguments.dict).ret

\* the tool turns are the turns of the first n calls, in the calls' order
TurnsMatchCalls(turns, calls, n) ==
    /\ Len(turns) = n
    /\ \A i \in 1..n :
          /\ turns[i].tool_call_id = calls[i].id
          /\ turns[i].name = calls[i].name
          /\ turns[i].content = HandlerReturn(calls[i])

\* C3: the handlers of the calls c1..ck of the first response are invoked
\* one at a time in that order, the handler of c(i+1) not before the result
\* turn of ci is appended, and the tool turns of the second call's message
\* list are those of c1..ck in order, each with the call's id, its name and
\* the string its handler returned.
C3_ResultsInCallOrder ==
    (outcome.op = "solve" /\ msg.tool_calls # <<>>) =>
        LET calls == msg.tool_calls
            done == Len(ToolTurns(messages))
        IN  /\ done <= Len(calls)
            /\ TurnsMatchCalls(ToolTurns(messages), calls, done)
            /\ Len(handler_log) <= Len(calls)
            /\ \A i \in 1..Len(handler_log) : handler_log[i] = calls[i].id
            /\ Len(handler_log) \in {done, done + 1}
            /\ pc = "DISPATCHING" => Len(handler_log) = done /\ done = k - 1
            /\ pc = "APPENDING" => Len(handler_log) = done + 1 /\ done = k - 1
            /\ Len(requests) = 2 =>
                  TurnsMatchCalls(ToolTurns(requests[2].messages), calls, Len(calls))

\* two calls with different results were dispatched and the second request is out
C3_Witness ==
    /\ pc = "SECOND_PASS"
    /\ Len(msg.tool_calls) = 2
    /\ msg.tool_calls[1].name # msg.tool_calls[2].name
    /\ ToolTurns(messages)[1].content # ToolTurns(messages)[2].content

\* C4: a call naming a tool that is not in the registry does not make solve
\* fail: it gets a dispatch-error result turn and solve goes on.
C4_UnregisteredToolIsRecovered ==
    ~(/\ pc = "FAILED"
      /\ outcome.op = "solve"
      /\ outcome.at = "self.tools[name]")

\* C5: whatever arguments the model sends for evaluate_math (a text that is
\* no JSON document, a map without the expression or the mode key), the call
\* ends in a tool-result turn and never raises to the Agent.
C5_MathToolInputNeverRaises ==
    ~(/\ pc = "FAILED"
      /\ outcome.op = "solve"
      /\ outcome.at \in {"json.loads", "handler"}
      /\ msg.tool_calls[k].name = "evaluate_math")

\* the characters the claim lists
ListedChars ==
    {"0", "1", "2", "3", "4", "5", "6", "7", "8", "9",
     "+", "-", "*", "/", "(", ")", ".", " "}

\* C6: in mode eval an expression with a character outside
\* 0123456789+-*/(). and the blank gets the disallowed-characters error and
\* is never handed to eval(); only strings made of those characters are.
C6_EvalOnlyOnWhitelisted ==
    m_outcome # NoOutcome =>
        /\ \A e \in Range(m_outcome.evaled) : Range(e) \subseteq ListedChars
        /\ ("expression" \in DOMAIN m_payload /\ "mode" \in DOMAIN m_payload
              /\ m_payload["mode"] = "eval"
              /\ ~(Range(m_payload["expression"]) \subseteq ListedChars))
           => /\ m_outcome.exc = "none"
              /\ m_outcome.ret = ErrText("disallowed characters")
              /\ m_outcome.evaled = <<>>

\* an eval request that mixes listed and unlisted characters was answered
C6_Witness ==
    /\ m_outcome # NoOutcome
    /\ "expression" \in DOMAIN m_payload /\ "mode" \in DOMAIN m_payload
    /\ m_payload["mode"] = "eval"
    /\ Range(m_payload["expression"]) \cap ListedChars # {}
    /\ Range(m_payload["expression"]) \ ListedChars # {}

\* n! for the n whose factorial a machine integer holds
RECURSIVE SmallFactorial(_)
SmallFactorial(n) == IF n = 0 THEN 1 ELSE n * SmallFactorial(n - 1)

\* C7: in mode factorial every integer 0 <= n <= 10000 (both ends included)
\* gets the decimal digits of n!, every n < 0 or n > 10000 gets the literal
\* "Error: n out of range", and an expression that is no integer gets an
\* error string.
C7_FactorialOfWholeRange ==
    (/\ m_outcome # NoOutcome
     /\ "expression" \in DOMAIN m_payload /\ "mode" \in DOMAIN m_payload
     /\ m_payload["mode"] = "factorial") =>
        LET n == PyInt(m_payload["expression"])
            ret == m_outcome.ret
        IN  /\ m_outcome.exc = "none"
            /\ n.t = "exc" => IsErrText(ret)
            /\ (n.t = "int" /\ (n.n < 0 \/ n.n > 10000)) => ret = ErrText("n out of range")
            /\ (n.t = "int" /\ 0 <= n.n /\ n.n <= 10000) =>
                  /\ ~IsErrText(ret)
                  /\ n.n <= 12 => ret = StrText(NatToChars(SmallFactorial(n.n)))
                  /\ n.n > FactExactMax => ret = [k |-> "factorial", n |-> n.n]

\* C8: a solve that returns appends to memory exactly one turn, of role
\* assistant, holding the returned final answer, whatever the path and the
\* number of tool calls; no other step of solve touches memory, so the
\* system, user, tool-request and tool-result turns stay in the message list.
C8_SolveAppendsOneAssistantTurn ==
    [][(outcome.op = "solve" \/ outcome'.op = "solve") =>
          IF pc # "DONE" /\ pc' = "DONE"
          THEN memory' = Append(memory, [role |-> "assistant", content |-> outcome'.value])
          ELSE memory' = memory]_vars

\* solve has returned on the tool path, with an earlier turn in memory
C8_Witness ==
    /\ pc = "DONE"
    /\ outcome.op = "solve"
    /\ Len(requests) = 2
    /\ Len(memory) = 2

\* C9: solve ends in DONE when every model call and every handler returns;
\* it has then made one model call if the first response requested no tool
\* call (the answer being that response's trimmed content) and two if it
\* requested some; the first call offers every registered tool with
\* tool-choice auto and the second offers none.
C9_SolveEndsDoneAfterOneOrTwoCalls ==
    (/\ pc \in {"DONE", "FAILED"}
     /\ outcome.op = "solve"
     /\ outcome.exc # "APIError"
     /\ outcome.at # "handler") =>
        /\ pc = "DONE"
        /\ Len(requests) = IF msg.tool_calls = <<>> THEN 1 ELSE 2
        /\ requests[1].offers_tools
        /\ requests[1].tools = ToolDefs(tools)
        /\ requests[1].tool_choice = "auto"
        /\ Len(requests) = 2 => ~requests[2].offers_tools
        /\ msg.tool_calls = <<>> => outcome.value = Trimmed(msg.content)

\* C10: a failed completion call is raised to the caller and leaves memory
\* and registry as they were before the call, so the number of memory turns
\* is the number of propose_question and solve calls that returned.
C10_FailedCallsLeaveMemory ==
    /\ n_ok = Len(memory)
    /\ (pc = "FAILED" /\ outcome.exc = "APIError") =>
          /\ outcome.status = "raised"
          /\ outcome.op = "solve" =>
                /\ tool_defs = ToolDefs(tools)
                /\ messages = FirstMessageList(memory, question)
                                \o ToolTurns(messages)

\* the second completion call of a solve failed after an earlier call returned
C10_Witness ==
    /\ pc = "FAILED"
    /\ outcome.exc = "APIError"
    /\ Len(requests) = 2
    /\ n_ok >= 1

====
